---------------------------- MODULE Spec2Model ----------------------------
(***************************************************************************)
(* discord/enums.py: the EnumMeta symbol-set engine (definition, strict    *)
(* and try resolution, lookup, iteration, immutability, instance check),   *)
(* and discord/scheduled_event.py: GuildScheduledEvent.edit.               *)
(*                                                                         *)
(* Python values are records [kind, n]:                                    *)
(*   int   n = the integer          str   n = length / code of the string  *)
(*   list  an unhashable value      func  a plain function (descriptor)    *)
(*   classmethod                    sym   n = object id of a Symbol (heap) *)
(*   bool  n \in {0,1}              none                                   *)
(***************************************************************************)
EXTENDS Integers, Sequences, FiniteSets, Bags, TLC

VARIABLES
    classes,   \* class name -> the class object EnumMeta.__new__ built
    heap,      \* object id -> Symbol (namedtuple name/value + back-reference)
    iters,     \* live generator objects returned by __iter__
    last,      \* the most recent call on a class (or class statement) and its outcome
    event,     \* the GuildScheduledEvent object (the attributes edit reads)
    elast,     \* the most recent edit call: what it carried and how it ended
    remote,    \* the event as the service holds it (the data of its payloads)
    pending    \* bag of the responses of edit_guild_event not yet received: edit calls awaiting

vars == <<classes, heap, iters, last, event, elast, remote, pending>>
evars == <<event, elast, remote, pending>>

-----------------------------------------------------------------------------
(* Values *)

PyInt(i)  == [kind |-> "int", n |-> i]
PyStr(i)  == [kind |-> "str", n |-> i]
PySym(o)  == [kind |-> "sym", n |-> o]
PyBool(b) == [kind |-> "bool", n |-> IF b THEN 1 ELSE 0]
PyList  == [kind |-> "list", n |-> 0]
PyFunc    == [kind |-> "func", n |-> 0]
ClassMethod == [kind |-> "classmethod", n |-> 0]
Property  == [kind |-> "property", n |-> 0]
PyNone    == [kind |-> "none", n |-> 0]

Return(v) == [tag |-> "return", val |-> v, exc |-> ""]
Raise(e)  == [tag |-> "raise", val |-> PyNone, exc |-> e]

\* hash(v) raises TypeError for a list
Hashable(v) == v.kind # "list"

Attr(k, v) == [key |-> k, value |-> v]

-----------------------------------------------------------------------------
(* Bounds of the exploration *)

MaxAttrs == 2      \* entries in the body of the declared class T
MaxIters == 2      \* generator objects alive at once

\* names usable in the body of T; those with a leading underscore
UserKeys == {"a", "b", "_p"}
UnderscoreKeys == {"_p", "__module__", "__qualname__", "__doc__", "__str__", "__int__",
                   "_enum_value_map_", "_enum_member_map_", "_enum_member_names_"}
UserValues == {PyInt(1), PyInt(2), PyFunc, PyList}

\* raw values handed to the resolvers
RawValues == {PyInt(1), PyInt(2), PyInt(999), PyList}

-----------------------------------------------------------------------------
(* enums.py *)

\* _is_descriptor: functions, classmethods, properties have __get__; ints, strs, lists do not
_is_descriptor(obj) == obj.kind \in {"func", "classmethod", "property"}

\* key[0] == '_'
StartsWithUnderscore(key) == key \in UnderscoreKeys

\* value_cls(name=key, value=value); _actual_enum_cls_ is stamped by __new__
_create_value(cname, key, value) ==
    [name |-> key, value |-> value, _actual_enum_cls_ |-> cname]

EmptyMap == [x \in {} |-> 0]

\* attrs as a mapping (the class namespace handed to __new__)
RECURSIVE AsDict(_)
AsDict(attrs) ==
    IF attrs = <<>> THEN EmptyMap
    ELSE (attrs[Len(attrs)].key :> attrs[Len(attrs)].value) @@ AsDict(SubSeq(attrs, 1, Len(attrs) - 1))

\* del d[k]
DictDel(d, k) == [x \in (DOMAIN d) \ {k} |-> d[x]]

\* d[k] = v
DictSet(d, k, v) == (k :> v) @@ d

\* d[k]: TypeError for an unhashable key, KeyError for a missing one
DictGet(d, k) ==
    IF ~Hashable(k) THEN Raise("TypeError")
    ELSE IF k \in DOMAIN d THEN Return(d[k])
    ELSE Raise("KeyError")

\* the locals of EnumMeta.__new__ before its loop
NewState(attrs, h) ==
    [vm |-> EmptyMap, mm |-> EmptyMap, names |-> <<>>, h |-> h,
     desc |-> {}, attrs |-> AsDict(attrs), err |-> ""]

\* NewStep with the alias branch lost: every entry gets a Symbol of its own
NewStep_NoAlias(cname, a, st) ==
    LET key == a.key
        value == a.value
        is_descriptor == _is_descriptor(value)
        oid == Len(st.h) + 1
    IN  IF StartsWithUnderscore(key) /\ ~is_descriptor THEN st
        ELSE IF value.kind = "classmethod" THEN st
        ELSE IF is_descriptor
             THEN [st EXCEPT !.desc = @ \cup {key}, !.attrs = DictDel(@, key)]
        ELSE IF ~Hashable(value) THEN [st EXCEPT !.err = "TypeError"]
        ELSE [st EXCEPT !.h = Append(@, _create_value(cname, key, value)),
                        !.vm = DictSet(@, value, oid),
                        !.names = IF value \in DOMAIN st.vm THEN @ ELSE Append(@, key),
                        !.mm = DictSet(@, key, oid),
                        !.attrs = DictSet(@, key, PySym(oid))]

\* NewStep with member_names.append(key) moved out of the except branch
NewStep_AppendAlias(cname, a, st) ==
    LET key == a.key
        value == a.value
        is_descriptor == _is_descriptor(value)
    IN  IF StartsWithUnderscore(key) /\ ~is_descriptor THEN st
        ELSE IF value.kind = "classmethod" THEN st
        ELSE IF is_descriptor
             THEN [st EXCEPT !.desc = @ \cup {key}, !.attrs = DictDel(@, key)]
        ELSE LET got == DictGet(st.vm, value)
             IN  IF got.tag = "return"
                 THEN [st EXCEPT !.mm = DictSet(@, key, got.val),
                                 !.names = Append(@, key),
                                 !.attrs = DictSet(@, key, PySym(got.val))]
                 ELSE IF got.exc = "KeyError"
                 THEN LET oid == Len(st.h) + 1
                      IN  [st EXCEPT !.h = Append(@, _create_value(cname, key, value)),
                                     !.vm = DictSet(@, value, oid),
                                     !.names = Append(@, key),
                                     !.mm = DictSet(@, key, oid),
                                     !.attrs = DictSet(@, key, PySym(oid))]
                 ELSE [st EXCEPT !.err = got.exc]

\* the body of the for loop of EnumMeta.__new__ for attrs[i]
NewStep(cname, a, st) ==
    LET key == a.key
        value == a.value
        is_descriptor == _is_descriptor(value)
    IN  IF StartsWithUnderscore(key) /\ ~is_descriptor THEN st
        ELSE IF value.kind = "classmethod" THEN st
        ELSE IF is_descriptor
             THEN [st EXCEPT !.desc = @ \cup {key}, !.attrs = DictDel(@, key)]
        ELSE LET got == DictGet(st.vm, value)
             IN  IF got.tag = "return"
                 THEN [st EXCEPT !.mm = DictSet(@, key, got.val),
                                 !.attrs = DictSet(@, key, PySym(got.val))]
                 ELSE IF got.exc = "KeyError"
                 THEN LET oid == Len(st.h) + 1
                      IN  [st EXCEPT !.h = Append(@, _create_value(cname, key, value)),
                                     !.vm = DictSet(@, value, oid),
                                     !.names = Append(@, key),
                                     !.mm = DictSet(@, key, oid),
                                     !.attrs = DictSet(@, key, PySym(oid))]
                 ELSE [st EXCEPT !.err = got.exc]

\* the for loop of EnumMeta.__new__ from attrs[i] on (each pass is bound to its
\* result st1 before the next begins)
RECURSIVE NewLoop(_, _, _, _)
NewLoop(cname, attrs, i, st) ==
    IF i > Len(attrs) \/ st.err # "" THEN st
    ELSE CHOOSE r \in { NewLoop(cname, attrs, i + 1, st1) :
                          st1 \in {NewStep(cname, attrs[i], st)} } : TRUE

\* EnumMeta.__new__(cls, name, bases, attrs): the class object and the new heap
\* (body keeps the class statement as written, for stating what was declared)
EnumMetaNew(cname, attrs, h) ==
    CHOOSE r \in
      { [err |-> st.err,
         heap |-> IF st.err = "" THEN st.h ELSE h,
         cls |-> [_enum_value_map_ |-> st.vm,
                  _enum_member_map_ |-> st.mm,
                  _enum_member_names_ |-> st.names,
                  value_cls_attrs |-> st.desc,
                  attrs |-> st.attrs,
                  body |-> attrs]] : st \in {NewLoop(cname, attrs, 1, NewState(attrs, h))} } : TRUE

\* class ButtonStyle(Enum)
ButtonStyleAttrs ==
    << Attr("__module__", PyStr(13)), Attr("__qualname__", PyStr(11)), Attr("__doc__", PyStr(200)),
       Attr("blurple", PyInt(1)), Attr("Primary", PyInt(1)),
       Attr("grey", PyInt(2)), Attr("gray", PyInt(2)), Attr("Secondary", PyInt(2)),
       Attr("green", PyInt(3)), Attr("Success", PyInt(3)),
       Attr("red", PyInt(4)), Attr("Danger", PyInt(4)),
       Attr("url", PyInt(5)), Attr("link", PyInt(5)), Attr("grey_url", PyInt(5)),
       Attr("Link_Button", PyInt(5)),
       Attr("from_value", ClassMethod), Attr("__str__", PyFunc), Attr("__int__", PyFunc) >>

\* class ButtonColor(ButtonStyle): pass
ButtonColorAttrs ==
    << Attr("__module__", PyStr(13)), Attr("__qualname__", PyStr(11)), Attr("__doc__", PyStr(100)) >>


-----------------------------------------------------------------------------
(* The operations of a symbol-set type.  cs is the table of classes. *)

\* getattr(cls, name) for the three bookkeeping attributes; AttributeError when
\* cls is not a class EnumMeta built
GetEnumAttr(cs, c, name) ==
    IF c \in DOMAIN cs THEN Return(cs[c][name]) ELSE Raise("AttributeError")

\* __call__ with `except KeyError` only: the TypeError of an unhashable value escapes
EnumMetaCall_KeyErrorOnly(cs, c, value) ==
    LET got == DictGet(cs[c]._enum_value_map_, value)
    IN  IF got.tag = "return" THEN Return(PySym(got.val))
        ELSE IF got.exc = "KeyError" THEN Raise("ValueError")
        ELSE got

\* EnumMeta.__call__(cls, value)
EnumMetaCall(cs, c, value) ==
    LET got == DictGet(cs[c]._enum_value_map_, value)
    IN  IF got.tag = "return" THEN Return(PySym(got.val))
        ELSE IF got.exc \in {"KeyError", "TypeError"} THEN Raise("ValueError")
        ELSE got

\* Enum.try_value(cls, value)
try_value(cs, c, value) ==
    LET got == DictGet(cs[c]._enum_value_map_, value)
    IN  IF got.tag = "return" THEN Return(PySym(got.val))
        ELSE IF got.exc \in {"KeyError", "TypeError"} THEN Return(value)
        ELSE got

\* try_enum with TypeError missing from the except clause
try_enum_NoTypeError(cs, c, val) ==
    LET vm == GetEnumAttr(cs, c, "_enum_value_map_")
        got == IF vm.tag = "raise" THEN vm ELSE DictGet(vm.val, val)
    IN  IF got.tag = "return" THEN Return(PySym(got.val))
        ELSE IF got.exc \in {"KeyError", "AttributeError"} THEN Return(val)
        ELSE got

\* try_enum(cls, val); cls may be any object
try_enum(cs, c, val) ==
    LET vm == GetEnumAttr(cs, c, "_enum_value_map_")
        got == IF vm.tag = "raise" THEN vm ELSE DictGet(vm.val, val)
    IN  IF got.tag = "return" THEN Return(PySym(got.val))
        ELSE IF got.exc \in {"KeyError", "TypeError", "AttributeError"} THEN Return(val)
        ELSE got

\* __getitem__ that knows the names of _enum_member_names_ only
EnumMetaGetitem_CanonicalOnly(cs, c, key) ==
    IF \E i \in DOMAIN cs[c]._enum_member_names_ : cs[c]._enum_member_names_[i] = key
    THEN Return(PySym(cs[c]._enum_member_map_[key]))
    ELSE Raise("KeyError")

\* EnumMeta.__getitem__(cls, key)
EnumMetaGetitem(cs, c, key) ==
    IF key \in DOMAIN cs[c]._enum_member_map_
    THEN Return(PySym(cs[c]._enum_member_map_[key]))
    ELSE Raise("KeyError")

\* EnumMeta.__members__: a read-only view of cls._enum_member_map_, name -> Symbol
EnumMetaMembers(cs, c) ==
    [key \in DOMAIN cs[c]._enum_member_map_ |-> PySym(cs[c]._enum_member_map_[key])]

\* EnumMeta.__iter__(cls): a generator over cls._enum_member_names_, not yet started
EnumMetaIter(cs, c) ==
    [cls |-> c, names |-> cs[c]._enum_member_names_, pos |-> 0, out |-> <<>>,
     done |-> FALSE]

\* reversed(seq)
Reverse(seq) == [i \in 1..Len(seq) |-> seq[Len(seq) + 1 - i]]

\* __reversed__ that hands out the generator of __iter__
EnumMetaReversed_Forward(cs, c) ==
    [cls |-> c, names |-> cs[c]._enum_member_names_, pos |-> 0, out |-> <<>>,
     done |-> FALSE]

\* EnumMeta.__reversed__(cls): a generator over reversed(cls._enum_member_names_),
\* not yet started
EnumMetaReversed(cs, c) ==
    [cls |-> c, names |-> Reverse(cs[c]._enum_member_names_), pos |-> 0, out |-> <<>>,
     done |-> FALSE]

\* next(gen) on the generator expression of __iter__: the generator afterwards and
\* the outcome (out records what it has yielded so far, done that it has raised
\* StopIteration)
GenNext(cs, g) ==
    IF g.pos < Len(g.names)
    THEN LET v == PySym(cs[g.cls]._enum_member_map_[g.names[g.pos + 1]])
         IN  [gen |-> [g EXCEPT !.pos = @ + 1, !.out = Append(@, v)], res |-> Return(v)]
    ELSE [gen |-> [g EXCEPT !.done = TRUE], res |-> Raise("StopIteration")]

\* EnumMeta.__len__(cls)
EnumMetaLen(cs, c) == Return(PyInt(Len(cs[c]._enum_member_names_)))

\* __setattr__ that guards only the bookkeeping attributes and otherwise stores
EnumMetaSetattr_Store(cs, c, name, value) ==
    IF name \in {"_enum_value_map_", "_enum_member_map_", "_enum_member_names_"}
    THEN [classes |-> cs, res |-> Raise("TypeError")]
    ELSE [classes |-> [cs EXCEPT ![c].attrs = DictSet(@, name, value)],
          res |-> Return(PyNone)]

\* EnumMeta.__setattr__(cls, name, value): the classes afterwards and the outcome
EnumMetaSetattr(cs, c, name, value) ==
    [classes |-> cs, res |-> Raise("TypeError")]

\* EnumMeta.__delattr__(cls, attr)
EnumMetaDelattr(cs, c, attr) ==
    [classes |-> cs, res |-> Raise("TypeError")]

\* instance._actual_enum_cls_: a class attribute of the value class of a Symbol
GetActualEnumCls(h, instance) ==
    IF instance.kind = "sym" THEN Return(h[instance.n]._actual_enum_cls_)
    ELSE Raise("AttributeError")

\* __instancecheck__ that accepts the Symbol of any symbol set
EnumMetaInstancecheck_AnySymbol(h, self, instance) ==
    GetActualEnumCls(h, instance).tag = "return"

\* EnumMeta.__instancecheck__(self, instance)
EnumMetaInstancecheck(h, self, instance) ==
    LET got == GetActualEnumCls(h, instance)
    IN  IF got.tag = "return" THEN got.val = self
        ELSE IF got.exc = "AttributeError" THEN FALSE
        ELSE FALSE

-----------------------------------------------------------------------------

\* no GuildScheduledEvent has been constructed, no edit made
NoEvent == [status |-> PyNone]
NoEdit == [op |-> "none"]

NoCall == [op |-> "none", cls |-> "", arg |-> PyNone, key |-> "", res |-> Return(PyNone)]

Init ==
    LET bs == EnumMetaNew("ButtonStyle", ButtonStyleAttrs, <<>>)
        bc == EnumMetaNew("ButtonColor", ButtonColorAttrs, bs.heap)
    IN  /\ classes = ("ButtonStyle" :> bs.cls) @@ ("ButtonColor" :> bc.cls)
        /\ heap = bc.heap
        /\ iters = <<>>
        /\ last = NoCall
        /\ event = NoEvent
        /\ elast = NoEdit
        /\ remote = NoEvent
        /\ pending = EmptyBag

\* the bodies a class statement `class T(Enum): ...` may have: a dict, so keys are distinct
Bodies ==
    UNION { { s \in [1..n -> [key : UserKeys, value : UserValues]] :
                \A i, j \in 1..n : i # j => s[i].key # s[j].key } : n \in 0..MaxAttrs }

\* class T(Enum): <body>
Define(body) ==
    /\ "T" \notin DOMAIN classes
    /\ LET r == EnumMetaNew("T", body, heap)
       IN  /\ classes' = IF r.err = "" THEN ("T" :> r.cls) @@ classes ELSE classes
           /\ heap' = r.heap
           /\ last' = [NoCall EXCEPT !.op = "define", !.cls = "T",
                                     !.res = IF r.err = "" THEN Return(PyNone) ELSE Raise(r.err)]
    /\ UNCHANGED <<iters, evars>>

\* every object a caller can hold: raw values and the Symbols made so far
Objects == RawValues \cup { PySym(o) : o \in DOMAIN heap }

\* values handed to the resolvers: raw values and a Symbol (hashable, never a key)
ResolveArgs == RawValues \cup {PySym(1)}

\* names used for lookup
Names == UserKeys \cup {"grey", "gray", "Secondary", "missing"}

\* names tested against the members view
MemberKeys == Names

\* attribute names and values used for assignment and deletion
AttrNames == {"grey", "_enum_member_map_", "missing"}
AttrValues == {PyInt(7)}

\* things that are passed where a symbol-set type is expected
ClassArgs == DOMAIN classes \cup {"object"}

Called(op, c, arg, key, res) ==
    /\ last' = [op |-> op, cls |-> c, arg |-> arg, key |-> key, res |-> res]
    /\ UNCHANGED <<classes, heap, iters, evars>>

\* cls(value)
Call(c, v) == Called("call", c, v, "", EnumMetaCall(classes, c, v))

\* cls.try_value(value)
TryValue(c, v) == Called("try_value", c, v, "", try_value(classes, c, v))

\* try_enum(cls, val)
TryEnum(c, v) == Called("try_enum", c, v, "", try_enum(classes, c, v))

\* cls[key]
GetItem(c, k) == Called("getitem", c, PyNone, k, EnumMetaGetitem(classes, c, k))

\* key in cls.__members__
Members(c, k) ==
    Called("members", c, PyNone, k, Return(PyBool(k \in DOMAIN EnumMetaMembers(classes, c))))

\* len(cls)
Length(c) == Called("len", c, PyNone, "", EnumMetaLen(classes, c))

\* cls.name = value
SetAttr(c, k, v) ==
    LET r == EnumMetaSetattr(classes, c, k, v)
    IN  /\ classes' = r.classes
        /\ last' = [op |-> "setattr", cls |-> c, arg |-> v, key |-> k, res |-> r.res]
        /\ UNCHANGED <<heap, iters, evars>>

\* del cls.attr
DelAttr(c, k) ==
    LET r == EnumMetaDelattr(classes, c, k)
    IN  /\ classes' = r.classes
        /\ last' = [op |-> "delattr", cls |-> c, arg |-> PyNone, key |-> k, res |-> r.res]
        /\ UNCHANGED <<heap, iters, evars>>

\* isinstance(x, cls)
InstanceCheck(c, x) ==
    Called("isinstance", c, x, "", Return(PyBool(EnumMetaInstancecheck(heap, c, x))))

\* it = iter(cls)
IterNew(c) ==
    /\ Len(iters) < MaxIters
    /\ iters' = Append(iters, EnumMetaIter(classes, c))
    /\ UNCHANGED <<classes, heap, last, evars>>

\* next(it)
IterNext(i) ==
    LET r == GenNext(classes, iters[i])
    IN  /\ iters' = [iters EXCEPT ![i] = r.gen]
        /\ UNCHANGED <<classes, heap, last, evars>>

Next ==
    \/ \E body \in Bodies : Define(body)
    \/ \E c \in DOMAIN classes, v \in ResolveArgs : Call(c, v)
    \/ \E c \in DOMAIN classes, v \in ResolveArgs : TryValue(c, v)
    \/ \E c \in ClassArgs, v \in ResolveArgs : TryEnum(c, v)
    \/ \E c \in DOMAIN classes, k \in Names : GetItem(c, k)
    \/ \E c \in DOMAIN classes : Length(c)
    \/ \E c \in DOMAIN classes, k \in AttrNames, v \in AttrValues : SetAttr(c, k, v)
    \/ \E c \in DOMAIN classes, k \in AttrNames : DelAttr(c, k)
    \/ \E c \in DOMAIN classes, x \in Objects : InstanceCheck(c, x)

Spec == Init /\ [][Next]_vars

\* iteration: generators are created and advanced while classes are being defined
\* the types a new generator is asked of: the generators alive together are
\* generators over one type
IterTargets == IF iters = <<>> THEN DOMAIN classes ELSE {iters[1].cls}

NextIter ==
    \/ \E body \in Bodies : Define(body)
    \/ \E c \in IterTargets : IterNew(c)
    \/ \E i \in DOMAIN iters : IterNext(i)

SpecIter == Init /\ [][NextIter]_vars

\* class statements, lookup by name and the members view
NextLookup ==
    \/ \E body \in Bodies : Define(body)
    \/ \E c \in DOMAIN classes, k \in Names : GetItem(c, k)
    \/ \E c \in DOMAIN classes, k \in MemberKeys : Members(c, k)

SpecLookup == Init /\ [][NextLookup]_vars

\* it = reversed(cls)
ReversedNew(c) ==
    /\ Len(iters) < MaxIters
    /\ iters' = Append(iters, EnumMetaReversed(classes, c))
    /\ UNCHANGED <<classes, heap, last, evars>>

\* class statements and reverse iteration
NextReversed ==
    \/ \E body \in Bodies : Define(body)
    \/ \E c \in IterTargets : ReversedNew(c)
    \/ \E i \in DOMAIN iters : IterNext(i)

SpecReversed == Init /\ [][NextReversed]_vars

-----------------------------------------------------------------------------
(* enums.py: AuditLogActionCategory and AuditLogAction *)

\* 'guild', 'channel', ...: a str given by its text
Text(s) == [kind |-> "text", n |-> s]

\* class AuditLogActionCategory(Enum)
AuditLogActionCategoryAttrs ==
    << Attr("__module__", PyStr(13)), Attr("__qualname__", PyStr(22)),
       Attr("create", PyInt(1)), Attr("delete", PyInt(2)), Attr("update", PyInt(3)) >>

\* class AuditLogAction(Enum)
AuditLogActionAttrs ==
    << Attr("__module__", PyStr(13)), Attr("__qualname__", PyStr(14)),
       Attr("guild_update", PyInt(1)), Attr("channel_create", PyInt(10)),
       Attr("channel_update", PyInt(11)), Attr("channel_delete", PyInt(12)),
       Attr("overwrite_create", PyInt(13)), Attr("overwrite_update", PyInt(14)),
       Attr("overwrite_delete", PyInt(15)), Attr("kick", PyInt(20)),
       Attr("member_prune", PyInt(21)), Attr("ban", PyInt(22)),
       Attr("unban", PyInt(23)), Attr("member_update", PyInt(24)),
       Attr("member_role_update", PyInt(25)), Attr("member_move", PyInt(26)),
       Attr("member_disconnect", PyInt(27)), Attr("bot_add", PyInt(28)),
       Attr("role_create", PyInt(30)), Attr("role_update", PyInt(31)),
       Attr("role_delete", PyInt(32)), Attr("invite_create", PyInt(40)),
       Attr("invite_update", PyInt(41)), Attr("invite_delete", PyInt(42)),
       Attr("webhook_create", PyInt(50)), Attr("webhook_update", PyInt(51)),
       Attr("webhook_delete", PyInt(52)), Attr("emoji_create", PyInt(60)),
       Attr("emoji_update", PyInt(61)), Attr("emoji_delete", PyInt(62)),
       Attr("message_delete", PyInt(72)), Attr("message_bulk_delete", PyInt(73)),
       Attr("message_pin", PyInt(74)), Attr("message_unpin", PyInt(75)),
       Attr("integration_create", PyInt(80)), Attr("integration_update", PyInt(81)),
       Attr("integration_delete", PyInt(82)), Attr("category", Property),
       Attr("target_type", Property) >>

\* the dict display of category: (AuditLogAction member, AuditLogActionCategory
\* member or None), in the order written
CategoryTable ==
    << <<"guild_update", "update">>, <<"channel_create", "create">>,
       <<"channel_update", "update">>, <<"channel_delete", "delete">>,
       <<"overwrite_create", "create">>, <<"overwrite_update", "update">>,
       <<"overwrite_delete", "delete">>, <<"kick", "None">>,
       <<"member_prune", "None">>, <<"ban", "None">>, <<"unban", "None">>,
       <<"member_update", "update">>, <<"member_role_update", "update">>,
       <<"member_move", "None">>, <<"member_disconnect", "None">>,
       <<"bot_add", "None">>, <<"role_create", "create">>, <<"role_update", "update">>,
       <<"role_delete", "delete">>, <<"invite_create", "create">>,
       <<"invite_update", "update">>, <<"invite_delete", "delete">>,
       <<"webhook_create", "create">>, <<"webhook_update", "update">>,
       <<"webhook_delete", "delete">>, <<"emoji_create", "create">>,
       <<"emoji_update", "update">>, <<"emoji_delete", "delete">>,
       <<"message_delete", "delete">>, <<"message_bulk_delete", "delete">>,
       <<"message_pin", "None">>, <<"message_unpin", "None">>,
       <<"integration_create", "create">>, <<"integration_update", "update">>,
       <<"integration_delete", "delete">> >>

\* cls.name for a name of the class namespace
ClassAttr(cs, c, name) ==
    IF name \in DOMAIN cs[c].attrs THEN Return(cs[c].attrs[name])
    ELSE Raise("AttributeError")

\* what a Symbol hashes and compares as: the tuple (name, value)
SymKey(h, x) == <<h[x.n].name, h[x.n].value>>

\* does x have the attribute `name`: only a Symbol whose value class carries it
HasProperty(cs, h, x, name) ==
    /\ x.kind = "sym"
    /\ h[x.n]._actual_enum_cls_ \in DOMAIN cs
    /\ name \in cs[h[x.n]._actual_enum_cls_].value_cls_attrs

\* AuditLogAction.category
category(cs, h, self) ==
    IF ~HasProperty(cs, h, self, "category") THEN Raise("AttributeError")
    ELSE IF \E i \in DOMAIN CategoryTable :
               \/ ClassAttr(cs, "AuditLogAction", CategoryTable[i][1]).tag = "raise"
               \/ /\ CategoryTable[i][2] # "None"
                  /\ ClassAttr(cs, "AuditLogActionCategory", CategoryTable[i][2]).tag = "raise"
    THEN Raise("AttributeError")
    ELSE LET hits == { i \in DOMAIN CategoryTable :
                         SymKey(h, ClassAttr(cs, "AuditLogAction", CategoryTable[i][1]).val)
                           = SymKey(h, self) }
             i == CHOOSE j \in hits : \A k \in hits : k <= j
         IN  IF hits = {} THEN Raise("KeyError")
             ELSE IF CategoryTable[i][2] = "None" THEN Return(PyNone)
             ELSE ClassAttr(cs, "AuditLogActionCategory", CategoryTable[i][2])

\* target_type without its last branch
target_type_NoIntegration(cs, h, self) ==
    IF ~HasProperty(cs, h, self, "target_type") THEN Raise("AttributeError")
    ELSE LET v == h[self.n].value.n
         IN  IF v = -1 THEN Return(Text("all"))
             ELSE IF v < 10 THEN Return(Text("guild"))
             ELSE IF v < 20 THEN Return(Text("channel"))
             ELSE IF v < 30 THEN Return(Text("user"))
             ELSE IF v < 40 THEN Return(Text("role"))
             ELSE IF v < 50 THEN Return(Text("invite"))
             ELSE IF v < 60 THEN Return(Text("webhook"))
             ELSE IF v < 70 THEN Return(Text("emoji"))
             ELSE IF v < 80 THEN Return(Text("message"))
             ELSE Return(PyNone)

\* AuditLogAction.target_type
target_type(cs, h, self) ==
    IF ~HasProperty(cs, h, self, "target_type") THEN Raise("AttributeError")
    ELSE LET v == h[self.n].value.n
         IN  IF v = -1 THEN Return(Text("all"))
             ELSE IF v < 10 THEN Return(Text("guild"))
             ELSE IF v < 20 THEN Return(Text("channel"))
             ELSE IF v < 30 THEN Return(Text("user"))
             ELSE IF v < 40 THEN Return(Text("role"))
             ELSE IF v < 50 THEN Return(Text("invite"))
             ELSE IF v < 60 THEN Return(Text("webhook"))
             ELSE IF v < 70 THEN Return(Text("emoji"))
             ELSE IF v < 80 THEN Return(Text("message"))
             ELSE IF v < 90 THEN Return(Text("integration"))
             ELSE Return(PyNone)

MaxRaw == 90       \* largest action_type handed to try_enum

\* the action_type values of audit log entries
AuditRaw == { PyInt(v) : v \in 0..MaxRaw }

\* what .category and .target_type are asked of: any Symbol, or a raw value
\* try_enum gave back
AuditObjects == { PySym(o) : o \in DOMAIN heap } \cup {PyInt(999)}

InitAudit ==
    LET ac == EnumMetaNew("AuditLogActionCategory", AuditLogActionCategoryAttrs, <<>>)
        aa == EnumMetaNew("AuditLogAction", AuditLogActionAttrs, ac.heap)
    IN  /\ classes = ("AuditLogActionCategory" :> ac.cls) @@ ("AuditLogAction" :> aa.cls)
        /\ heap = aa.heap
        /\ iters = <<>>
        /\ last = NoCall
        /\ event = NoEvent
        /\ elast = NoEdit
        /\ remote = NoEvent
        /\ pending = EmptyBag

\* x.category
Category(x) == Called("category", "AuditLogAction", x, "", category(classes, heap, x))

\* x.target_type
TargetType(x) == Called("target_type", "AuditLogAction", x, "", target_type(classes, heap, x))

NextAudit ==
    \/ \E v \in AuditRaw : TryEnum("AuditLogAction", v)
    \/ \E x \in AuditObjects : Category(x)
    \/ \E x \in AuditObjects : TargetType(x)

SpecAudit == InitAudit /\ [][NextAudit]_vars

-----------------------------------------------------------------------------
(* scheduled_event.py: GuildScheduledEvent.edit

   The module imports EventEntityType and EventStatus from enums.py; they are
   declared here as symbol sets built by EnumMeta.__new__, with a read-only
   property per member name (status.active, entity_type.external, ...) that
   tells whether the Symbol is that member, and int() giving the raw value. *)

Absent      == [kind |-> "absent", n |-> 0]      \* the keyword is not passed
Datetime(t) == [kind |-> "datetime", n |-> t]
Iso(t)      == [kind |-> "iso", n |-> t]         \* datetime.isoformat()
Channel(t)  == [kind |-> "channel", n |-> t]     \* a channel whose .type is the ChannelType for raw value t
IntTypeChannel(t) == [kind |-> "intchannel", n |-> t]   \* a channel whose .type is the int t
Meta(loc)   == [kind |-> "meta", n |-> loc.n]    \* {'location': location}

EventEntityTypeAttrs ==
    << Attr("__module__", PyStr(13)), Attr("__qualname__", PyStr(15)),
       Attr("stage", PyInt(1)), Attr("voice", PyInt(2)), Attr("external", PyInt(3)),
       Attr("__int__", PyFunc) >>

EventStatusAttrs ==
    << Attr("__module__", PyStr(13)), Attr("__qualname__", PyStr(11)),
       Attr("scheduled", PyInt(1)), Attr("active", PyInt(2)),
       Attr("completed", PyInt(3)), Attr("canceled", PyInt(4)),
       Attr("__int__", PyFunc) >>

\* class ChannelType(Enum): it defines __str__ and no __int__
ChannelTypeAttrs ==
    << Attr("__module__", PyStr(13)), Attr("__qualname__", PyStr(11)),
       Attr("text", PyInt(0)), Attr("private", PyInt(1)), Attr("voice", PyInt(2)),
       Attr("group", PyInt(3)), Attr("category", PyInt(4)), Attr("news", PyInt(5)),
       Attr("store", PyInt(6)), Attr("news_thread", PyInt(10)),
       Attr("public_thread", PyInt(11)), Attr("private_thread", PyInt(12)),
       Attr("stage_voice", PyInt(13)),
       Attr("__str__", PyFunc) >>

\* the symbol sets edit uses, as they exist once enums.py is loaded
LoadEventEntityType == EnumMetaNew("EventEntityType", EventEntityTypeAttrs, <<>>)
LoadEventStatus == EnumMetaNew("EventStatus", EventStatusAttrs, LoadEventEntityType.heap)
LoadChannelType == EnumMetaNew("ChannelType", ChannelTypeAttrs, LoadEventStatus.heap)

\* the attributes edit reads from a member of the two classes (lines 94, 105,
\* 119, 125 and 180-184)
EventEntityTypePredicates == {"external"}
EventStatusPredicates == {"scheduled", "active", "completed", "canceled"}

\* the classes as __new__ builds them from the members alone: the value class
\* has name and value (lines 65-69), so reading a predicate from a member raises
\* AttributeError
BareClasses ==
    ("EventEntityType" :> LoadEventEntityType.cls) @@ ("EventStatus" :> LoadEventStatus.cls)
    @@ ("ChannelType" :> LoadChannelType.cls)

\* the same classes when the value classes of the two event classes also carry
\* the predicates. No class body gives this through __new__: a name bound to a
\* property is removed from the class and is no member (lines 92-95), so the
\* predicates are attributes the absent definitions set on the value class
\* themselves
LoadedClasses ==
    ("EventEntityType" :>
        [LoadEventEntityType.cls EXCEPT !.value_cls_attrs = @ \cup EventEntityTypePredicates])
    @@ ("EventStatus" :>
        [LoadEventStatus.cls EXCEPT !.value_cls_attrs = @ \cup EventStatusPredicates])
    @@ ("ChannelType" :> LoadChannelType.cls)
LoadedHeap == LoadChannelType.heap

\* EventStatus.<name>, EventEntityType.<name>
Member(cs, c, name) == PySym(cs[c]._enum_member_map_[name])

\* x.<name> for a Symbol x that has the predicate, as the messages edit raises
\* next to each use read it (lines 95, 126, 181, 183, 185): x is the member
\* called name
IsNamed(h, x, name) == h[x.n].name = name

\* x.value, int(x) for a Symbol x
ValueOf(h, x) == h[x.n].value

\* bool(v)
Truthy(v) ==
    CASE v.kind \in {"none", "absent"} -> FALSE
      [] v.kind \in {"str", "int", "bool"} -> v.n # 0
      [] OTHER -> TRUE

\* datetime.utcnow()
Now == 0

MinLength == 1
NameMax == 100
LocationMax == 100
DescriptionMax == 1000

\* the chained comparison `lo > len(s) > hi`
LengthRejected(lo, s, hi) == lo > s.n /\ s.n > hi

\* channel._check_channel_type(channel, types)
_check_channel_type(channel, types) ==
    channel.kind \in {"channel", "intchannel"} /\ channel.n \in types

\* channel.type: the ChannelType member of the raw type, or the raw type itself,
\* as the channel class has it
ChannelTypeOf(cs, channel) ==
    IF /\ channel.kind = "channel"
       /\ PyInt(channel.n) \in DOMAIN cs["ChannelType"]._enum_value_map_
    THEN PySym(cs["ChannelType"]._enum_value_map_[PyInt(channel.n)])
    ELSE PyInt(channel.n)

\* int(x): an int is itself, a Symbol needs the __int__ of its class, anything
\* else here raises TypeError
IntOf(cs, h, x) ==
    IF x.kind = "int" THEN Return(x)
    ELSE IF /\ x.kind = "sym"
            /\ h[x.n]._actual_enum_cls_ \in DOMAIN cs
            /\ "__int__" \in cs[h[x.n]._actual_enum_cls_].value_cls_attrs
    THEN Return(ValueOf(h, x))
    ELSE Raise("TypeError")

\* {13: EventEntityType.stage, 2: EventEntityType.voice}.get(t)
RetypeTable(cs, t) ==
    IF t = PyInt(13) THEN Member(cs, "EventEntityType", "stage")
    ELSE IF t = PyInt(2) THEN Member(cs, "EventEntityType", "voice")
    ELSE PyNone

Fail(ctx, stage, exc) == [ctx EXCEPT !.exc = exc, !.stage = stage]

\* lines 84-96: the type keyword
EditType(self, h, cs, ctx) ==
    IF ctx.fields.type = Absent THEN [ctx EXCEPT !.entity_type = self.entity_type]
    ELSE LET given == ctx.fields.type
             popped == [ctx.fields EXCEPT !.type = Absent]
             et == IF EnumMetaInstancecheck(h, "EventEntityType", given) THEN given
                   ELSE try_enum(cs, "EventEntityType", given).val
         IN  IF ~EnumMetaInstancecheck(h, "EventEntityType", et)
             THEN Fail(ctx, "type", "ValueError")
             ELSE IF ~HasProperty(cs, h, et, "external")
             THEN Fail(ctx, "type", "AttributeError")        \* entity_type.external
             ELSE IF IsNamed(h, et, "external")
                     /\ ~(Truthy(self.location) \/ Truthy(popped.location))
             THEN Fail(ctx, "type", "InvalidArgument")
             ELSE [ctx EXCEPT !.entity_type = et,
                              !.fields = [popped EXCEPT !.entity_type = ValueOf(h, et)]]

\* lines 98-109: the location keyword
EditLocation(self, h, cs, ctx) ==
    IF ctx.fields.location = Absent THEN ctx
    ELSE LET location == ctx.fields.location
         IN  IF LengthRejected(MinLength, location, LocationMax)
             THEN Fail(ctx, "location", "ValueError")
             ELSE IF ~HasProperty(cs, h, ctx.entity_type, "external")
             THEN Fail(ctx, "location", "AttributeError")    \* entity_type.external
             ELSE IF ~IsNamed(h, ctx.entity_type, "external")
             THEN Fail(ctx, "location", "AttributeError")    \* entity_type.external.value: <bool>.value
             ELSE [ctx EXCEPT !.fields = [@ EXCEPT !.entity_metadata = Meta(location),
                                                   !.channel_id = PyNone]]

\* lines 111-126: the channel keyword
EditChannel(self, h, cs, ctx) ==
    LET given == ctx.fields.channel
        popped == [ctx.fields EXCEPT !.channel = Absent]
        raw == ~HasProperty(cs, h, ctx.entity_type, "external")
        t == CHOOSE r \in { IntOf(cs, h, ty) : ty \in {ChannelTypeOf(cs, given)} } : TRUE
                                                                \* int(channel.type)
        retyped == RetypeTable(cs, t.val)
        sent == [popped EXCEPT !.channel_id = PyStr(given.n), !.entity_metadata = PyNone]
        c1 == IF given = Absent THEN [ctx EXCEPT !.channel = self.channel]
              ELSE IF ~_check_channel_type(given, {2, 13})
              THEN Fail(ctx, "channel", "TypeError")
              ELSE IF raw THEN Fail(ctx, "channel", "AttributeError")
              ELSE IF ~IsNamed(h, ctx.entity_type, "external")
              THEN [ctx EXCEPT !.channel = given, !.fields = sent]
              ELSE IF t.exc # "" THEN Fail(ctx, "channel", t.exc)
              ELSE IF retyped = PyNone
              THEN Fail(ctx, "channel", "AttributeError")       \* None.value
              ELSE [ctx EXCEPT !.channel = given,
                               !.entity_type = retyped,
                               !.fields = [sent EXCEPT !.entity_type = ValueOf(h, retyped)]]
    IN  IF c1.exc # "" THEN c1
        ELSE IF ~HasProperty(cs, h, c1.entity_type, "external")
        THEN Fail(c1, "channel", "AttributeError")              \* entity_type.external
        ELSE IF ~IsNamed(h, c1.entity_type, "external") /\ ~Truthy(c1.channel)
        THEN Fail(c1, "channel", "InvalidArgument")
        ELSE c1

\* lines 128-134: the name keyword
EditName(self, h, cs, ctx) ==
    IF ctx.fields.name = Absent THEN ctx
    ELSE IF LengthRejected(MinLength, ctx.fields.name, NameMax)
    THEN Fail(ctx, "name", "ValueError")
    ELSE ctx

\* lines 136-142: the description keyword
EditDescription(self, h, cs, ctx) ==
    IF ctx.fields.description = Absent THEN ctx
    ELSE IF LengthRejected(MinLength, ctx.fields.description, DescriptionMax)
    THEN Fail(ctx, "description", "ValueError")
    ELSE ctx

\* lines 144-156: the end_time keyword
EditEndTime(self, h, cs, ctx) ==
    LET given == ctx.fields.end_time
        c1 == IF given = Absent THEN [ctx EXCEPT !.end_time = self.end_time]
              ELSE IF given.kind # "datetime" THEN Fail(ctx, "end_time", "TypeError")
              ELSE IF given.n < Now THEN Fail(ctx, "end_time", "ValueError")
              ELSE [ctx EXCEPT !.end_time = given,
                               !.fields = [@ EXCEPT !.end_time = Absent,
                                                    !.scheduled_end_time = Iso(given.n)]]
    IN  IF c1.exc # "" THEN c1
        ELSE IF c1.entity_type = PyInt(3) /\ ~Truthy(c1.end_time)
        THEN Fail(c1, "end_time", "ValueError")
        ELSE c1

\* lines 158-170: the start_time keyword
EditStartTime(self, h, cs, ctx) ==
    LET given == ctx.fields.start_time
        c1 == IF given = Absent THEN [ctx EXCEPT !.start_time = self.start_time]
              ELSE IF given.kind # "datetime" THEN Fail(ctx, "start_time", "TypeError")
              ELSE IF given.n < Now THEN Fail(ctx, "start_time", "ValueError")
              ELSE [ctx EXCEPT !.start_time = given,
                               !.fields = [@ EXCEPT !.start_time = Absent,
                                                    !.scheduled_start_time = Iso(given.n)]]
    IN  IF c1.exc # "" THEN c1
        ELSE IF Truthy(c1.end_time) /\ c1.start_time.n > c1.end_time.n
        THEN Fail(c1, "start_time", "ValueError")
        ELSE c1

\* StatusRejected with the `not` of line 182 lost
StatusRejected_ActiveInverted(h, current_status, status) ==
    IF IsNamed(h, current_status, "canceled") \/ IsNamed(h, current_status, "completed")
    THEN "ValueError"
    ELSE IF IsNamed(h, current_status, "active") /\ IsNamed(h, status, "completed")
    THEN "ValueError"
    ELSE IF (IsNamed(h, current_status, "scheduled") /\ ~IsNamed(h, status, "active"))
            \/ IsNamed(h, status, "canceled")
    THEN "ValueError"
    ELSE ""

\* StatusRejected without the completed-or-canceled branch of lines 180-181
StatusRejected_NoTerminal(h, current_status, status) ==
    IF IsNamed(h, current_status, "active") /\ ~IsNamed(h, status, "completed")
    THEN "ValueError"
    ELSE IF (IsNamed(h, current_status, "scheduled") /\ ~IsNamed(h, status, "active"))
            \/ IsNamed(h, status, "canceled")
    THEN "ValueError"
    ELSE ""

\* lines 180-185: may current_status be changed to status ("" when it may)
StatusRejected(h, current_status, status) ==
    IF IsNamed(h, current_status, "canceled") \/ IsNamed(h, current_status, "completed")
    THEN "ValueError"
    ELSE IF IsNamed(h, current_status, "active") /\ ~IsNamed(h, status, "completed")
    THEN "ValueError"
    ELSE IF (IsNamed(h, current_status, "scheduled") /\ ~IsNamed(h, status, "active"))
            \/ IsNamed(h, status, "canceled")
    THEN "ValueError"
    ELSE ""

\* lines 172-186: the status keyword
EditStatus(self, h, cs, ctx) ==
    IF ctx.fields.status = Absent THEN ctx
    ELSE LET status == ctx.fields.status
         IN  IF ~EnumMetaInstancecheck(h, "EventStatus", status)
             THEN Fail(ctx, "status", "TypeError")
             ELSE IF ~HasProperty(cs, h, self.status, "canceled")
             THEN Fail(ctx, "status", "AttributeError")      \* current_status.canceled
             ELSE IF StatusRejected(h, self.status, status) # ""
             THEN Fail(ctx, "status", StatusRejected(h, self.status, status))
             ELSE [ctx EXCEPT !.fields = [@ EXCEPT !.status = ValueOf(h, status)]]

\* one block of edit, by the keyword it handles
Stage(name, self, h, cs, ctx) ==
    CASE name = "type" -> EditType(self, h, cs, ctx)
      [] name = "location" -> EditLocation(self, h, cs, ctx)
      [] name = "channel" -> EditChannel(self, h, cs, ctx)
      [] name = "name" -> EditName(self, h, cs, ctx)
      [] name = "description" -> EditDescription(self, h, cs, ctx)
      [] name = "end_time" -> EditEndTime(self, h, cs, ctx)
      [] name = "start_time" -> EditStartTime(self, h, cs, ctx)
      [] name = "status" -> EditStatus(self, h, cs, ctx)

\* one check of edit after another; the first that raises ends the call
\* (ctxs is the set holding the one context reached so far)
Then(self, h, cs, ctxs, name) ==
    { IF ctx.exc # "" THEN ctx ELSE Stage(name, self, h, cs, ctx) : ctx \in ctxs }

RequestKeys == [entity_type |-> Absent, entity_metadata |-> Absent, channel_id |-> Absent,
                scheduled_end_time |-> Absent, scheduled_start_time |-> Absent]

\* lines 84-186: everything edit does before the request
EditChecks(self, h, cs, kw) ==
    LET c0 == {[fields |-> kw @@ RequestKeys, entity_type |-> PyNone, channel |-> PyNone,
                end_time |-> PyNone, start_time |-> PyNone, exc |-> "", stage |-> ""]}
        c1 == Then(self, h, cs, c0, "type")
        c2 == Then(self, h, cs, c1, "location")
        c3 == Then(self, h, cs, c2, "channel")
        c4 == Then(self, h, cs, c3, "name")
        c5 == Then(self, h, cs, c4, "description")
        c6 == Then(self, h, cs, c5, "end_time")
        c7 == Then(self, h, cs, c6, "start_time")
    IN  CHOOSE ctx \in Then(self, h, cs, c7, "status") : TRUE

\* http.edit_guild_event: the service applies the fields to the event it holds
\* and answers with the event; it holds none once the event is deleted, and the
\* answer then is an error
edit_guild_event(data, fields) ==
    IF data = NoEvent THEN NoEvent ELSE
    [status |-> IF fields.status = Absent THEN data.status ELSE fields.status,
     entity_type |-> IF fields.entity_type = Absent THEN data.entity_type
                     ELSE fields.entity_type,
     location |-> IF fields.entity_metadata = Absent THEN data.location
                  ELSE IF fields.entity_metadata = PyNone THEN PyNone
                  ELSE PyStr(fields.entity_metadata.n),
     channel_id |-> IF fields.channel_id = Absent THEN data.channel_id
                    ELSE fields.channel_id,
     creator_id |-> data.creator_id,
     start_time |-> IF fields.scheduled_start_time = Absent THEN data.start_time
                    ELSE Datetime(fields.scheduled_start_time.n),
     end_time |-> IF fields.scheduled_end_time = Absent THEN data.end_time
                  ELSE Datetime(fields.scheduled_end_time.n)]

\* the channel property (lines 61-65): the channel only if self.creator_id
channel(creator_id, channel_id) ==
    IF Truthy(creator_id) /\ channel_id # PyNone THEN Channel(channel_id.n) ELSE PyNone

\* GuildScheduledEvent._update(data), with the channel property resolved
_update(cs, data) ==
    [status |-> try_enum(cs, "EventStatus", data.status).val,
     entity_type |-> try_enum(cs, "EventEntityType", data.entity_type).val,
     location |-> data.location,
     channel |-> channel(data.creator_id, data.channel_id),
     start_time |-> data.start_time,
     end_time |-> data.end_time]

-----------------------------------------------------------------------------
(* Bounds and inputs of the edit exploration *)

MaxPending == 2    \* edit calls awaiting their response at once

FieldNames == {"type", "location", "channel", "name", "description", "end_time",
               "start_time", "status"}

ArgsOf(cs, f) ==
    CASE f = "type" -> {Member(cs, "EventEntityType", "external"), PyInt(2), PyInt(99)}
      [] f = "location" -> {PyStr(0), PyStr(5), PyStr(101)}
      [] f = "channel" -> {Channel(2), Channel(0), IntTypeChannel(2)}
      [] f = "name" -> {PyStr(0), PyStr(100), PyStr(101)}
      [] f = "description" -> {PyStr(0), PyStr(1000), PyStr(1001)}
      [] f = "end_time" -> {Datetime(-1), Datetime(2), PyInt(5)}
      [] f = "start_time" -> {Datetime(-1), Datetime(1), PyInt(5)}
      [] f = "status" -> {Member(cs, "EventStatus", "scheduled"), Member(cs, "EventStatus", "active"),
                          Member(cs, "EventStatus", "completed"), Member(cs, "EventStatus", "canceled"),
                          Member(cs, "EventEntityType", "voice"), PyInt(2)}

NoKwargs == [f \in FieldNames |-> Absent]

\* the keyword sets an edit call may carry: none, one keyword, or a status
\* together with a keyword an earlier check of edit rejects
Kwargs(cs) ==
    {NoKwargs}
    \cup UNION { { [NoKwargs EXCEPT ![f] = v] : v \in ArgsOf(cs, f) } : f \in FieldNames }
    \cup { [NoKwargs EXCEPT !.status = Member(cs, "EventStatus", "scheduled"),
                            !.end_time = PyInt(5)] }

\* a payload of the service for an event of the given status, entity type and creator
Payload(st, et, cr) ==
    [status |-> PyInt(st), entity_type |-> PyInt(et),
     location |-> IF et = 3 THEN PyStr(5) ELSE PyNone,
     channel_id |-> IF et = 3 THEN PyNone ELSE PyStr(et),
     creator_id |-> cr,
     start_time |-> Datetime(1), end_time |-> Datetime(2)]

\* the payloads the gateway may hand to the constructor: a voice event in each
\* status (9: one try_enum does not know), a canceled external event, and a
\* scheduled and an active voice event whose payload names no creator
InitPayloads ==
    { Payload(st, 2, PyInt(7)) : st \in {1, 2, 3, 9} }
    \cup { Payload(4, 3, PyInt(7)), Payload(1, 2, PyNone), Payload(2, 2, PyNone) }

\* the statuses another party gives the event while it is being edited here
GatewayStatuses == {4}

InitEvent ==
    /\ classes = LoadedClasses
    /\ heap = LoadedHeap
    /\ iters = <<>>
    /\ last = NoCall
    /\ remote \in InitPayloads
    /\ event = _update(LoadedClasses, remote)
    /\ elast = NoEdit
    /\ pending = EmptyBag

\* the same events when the members may or may not have the predicates
InitEventAny ==
    /\ \E bare \in BOOLEAN : classes = IF bare THEN BareClasses ELSE LoadedClasses
    /\ heap = LoadedHeap
    /\ iters = <<>>
    /\ last = NoCall
    /\ remote \in InitPayloads
    /\ event = _update(classes, remote)
    /\ elast = NoEdit
    /\ pending = EmptyBag

\* the keywords among name, location, description whose string is shorter than
\* MinLength or longer than the maximum the error messages of edit give
BadLengths(kw) ==
    { f \in {"name", "location", "description"} :
        /\ kw[f] # Absent
        /\ LET hi == CASE f = "name" -> NameMax
                       [] f = "location" -> LocationMax
                       [] f = "description" -> DescriptionMax
           IN  kw[f].n < MinLength \/ kw[f].n > hi }

\* event.edit(**kw) up to its await (lines 84-188): the checks, then the request
\* is sent and the coroutine waits for the response
Edit(kw) ==
    \E ctx \in {EditChecks(event, heap, classes, kw)} :
        /\ ctx.exc = "" => BagCardinality(pending) < MaxPending
        /\ \E data \in {edit_guild_event(remote, ctx.fields)} :
              /\ remote' = IF ctx.exc = "" THEN data ELSE remote
              /\ pending' = IF ctx.exc = "" THEN pending (+) SetToBag({data}) ELSE pending
        /\ elast' = [op |-> "edit", before |-> event.status, status |-> kw.status,
                     badlen |-> BadLengths(kw),
                     exc |-> ctx.exc, stage |-> ctx.stage, sent |-> ctx.exc = ""]
        /\ UNCHANGED <<classes, heap, iters, last, event>>

\* an awaiting edit call gets its response (lines 188-190): self._update(data);
\* the calls awaiting together are answered in any order. When the answer is an
\* error the await raises and the event is left as it is
EditReturn(data) ==
    /\ event' = IF data = NoEvent THEN event ELSE _update(classes, data)
    /\ pending' = pending (-) SetToBag({data})
    /\ elast' = [op |-> "return", exc |-> IF data = NoEvent THEN "NotFound" ELSE ""]
    /\ UNCHANGED <<classes, heap, iters, last, remote>>

\* another party changes the status of the event; the gateway handler calls
\* event._update with the payload
GatewayUpdate(st) ==
    /\ remote # NoEvent
    /\ remote.status # PyInt(st)
    /\ remote' = [remote EXCEPT !.status = PyInt(st)]
    /\ event' = _update(classes, remote')
    /\ elast' = [op |-> "gateway"]
    /\ UNCHANGED <<classes, heap, iters, last, pending>>

\* event.delete() (lines 199-210): the request is handed to the http client and
\* the service drops the event; the event object keeps its attributes
Delete ==
    /\ remote' = NoEvent
    /\ elast' = [op |-> "delete"]
    /\ UNCHANGED <<classes, heap, iters, last, event, pending>>

NextEvent ==
    \/ \E kw \in Kwargs(classes) : Edit(kw)
    \/ \E data \in BagToSet(pending) : EditReturn(data)
    \/ \E st \in GatewayStatuses : GatewayUpdate(st)
    \/ Delete

SpecEvent == InitEvent /\ [][NextEvent]_vars

SpecEventAny == InitEventAny /\ [][NextEvent]_vars

-----------------------------------------------------------------------------
(* What a class statement declares, read off its body *)

\* a (name, raw value) entry: not underscore-prefixed, not a method or property
Qualifying(a) == ~StartsWithUnderscore(a.key) /\ a.value.kind \in {"int", "str"}

DeclaredAt(c) == { i \in DOMAIN classes[c].body : Qualifying(classes[c].body[i]) }

DeclaredValue(c, v) == \E i \in DeclaredAt(c) : classes[c].body[i].value = v

\* the first position at or after i that declares raw value v (0: none)
RECURSIVE FirstIndex(_, _, _)
FirstIndex(body, v, i) ==
    IF i > Len(body) THEN 0
    ELSE IF Qualifying(body[i]) /\ body[i].value = v THEN i
    ELSE FirstIndex(body, v, i + 1)

\* the positions at which a raw value is declared for the first time
FirstAt(c) ==
    LET body == classes[c].body
    IN  { i \in DeclaredAt(c) : FirstIndex(body, body[i].value, 1) = i }

\* the first name declared with raw value v
FirstName(c, v) == classes[c].body[FirstIndex(classes[c].body, v, 1)].key

\* the entries of body at the positions in at, in order, up to position i
RECURSIVE EntriesAt(_, _, _)
EntriesAt(body, at, i) ==
    IF i = 0 THEN <<>>
    ELSE IF i \in at THEN Append(EntriesAt(body, at, i - 1), body[i])
    ELSE EntriesAt(body, at, i - 1)

\* the first-declared entries, in declaration order
Canonical(c) ==
    CHOOSE r \in { EntriesAt(classes[c].body, at, Len(classes[c].body)) :
                     at \in {{ i \in FirstAt(c) : TRUE }} } : TRUE

IsSymbolOf(x, a, c) ==
    /\ x.kind = "sym"
    /\ x.n \in DOMAIN heap
    /\ heap[x.n].name = a.key
    /\ heap[x.n].value = a.value

-----------------------------------------------------------------------------
(* C1: try-resolve (Enum.try_value, try_enum) never raises; for a declared raw
   value it returns the very Symbol strict-resolve returns, for any other value
   (undeclared, unhashable, or a class that is no symbol set) the input itself. *)
C1_TryResolve ==
    last.op \in {"try_value", "try_enum"} =>
        /\ last.res.tag = "return"
        /\ IF last.cls \in DOMAIN classes /\ DeclaredValue(last.cls, last.arg)
           THEN /\ last.res.val.kind = "sym"
                /\ last.res = EnumMetaCall(classes, last.cls, last.arg)
           ELSE last.res.val = last.arg

\* try_enum(ButtonStyle, 999) gave back 999
C1_Witness ==
    /\ last.op = "try_enum" /\ last.cls = "ButtonStyle"
    /\ last.arg = PyInt(999) /\ last.res = Return(PyInt(999))

(* C2: strict-resolve returns, for a declared raw value, a Symbol whose value is
   that raw value, and raises ValueError for every other value. *)
C2_StrictResolve ==
    last.op = "call" =>
        IF DeclaredValue(last.cls, last.arg)
        THEN /\ last.res.tag = "return"
             /\ last.res.val.kind = "sym"
             /\ heap[last.res.val.n].value = last.arg
        ELSE last.res = Raise("ValueError")

\* T(v) returned a Symbol of the declared class T
C2_Witness ==
    /\ last.op = "call" /\ last.cls = "T" /\ last.res.tag = "return"
    /\ heap[last.res.val.n]._actual_enum_cls_ = "T"

(* C3: names declared with the same raw value resolve by name to one and the
   same Symbol object, whose name is the first name declared for that value;
   in ButtonStyle grey, gray and Secondary are the Symbol named grey. *)
C3_Aliases ==
    /\ \A c \in DOMAIN classes : \A i, j \in DeclaredAt(c) :
          LET a == classes[c].body[i]
              b == classes[c].body[j]
              ra == EnumMetaGetitem(classes, c, a.key)
              rb == EnumMetaGetitem(classes, c, b.key)
          IN  a.value = b.value =>
                /\ ra.tag = "return" /\ rb.tag = "return"
                /\ ra.val = rb.val
                /\ heap[ra.val.n].name = FirstName(c, a.value)
    /\ LET g == EnumMetaGetitem(classes, "ButtonStyle", "grey")
       IN  /\ g.tag = "return"
           /\ g = EnumMetaGetitem(classes, "ButtonStyle", "gray")
           /\ g = EnumMetaGetitem(classes, "ButtonStyle", "Secondary")
           /\ heap[g.val.n].name = "grey"
    /\ (last.op = "getitem" /\ last.res.tag = "return") =>
          \E i \in DeclaredAt(last.cls) :
             /\ classes[last.cls].body[i].key = last.key
             /\ heap[last.res.val.n].name = FirstName(last.cls, classes[last.cls].body[i].value)

\* T[alias] returned the Symbol declared under another, earlier name
C3_Witness ==
    /\ last.op = "getitem" /\ last.cls = "T" /\ last.res.tag = "return"
    /\ heap[last.res.val.n].name # last.key

(* C4: a generator from __iter__ yields the distinct Symbols once each, in
   first-declaration order, starting from the first member whatever other
   generators exist; len is the number of distinct raw values. *)
C4_Iteration ==
    \A c \in DOMAIN classes : \A canon \in {Canonical(c)} :
        /\ EnumMetaLen(classes, c) = Return(PyInt(Len(canon)))
        /\ \A i \in DOMAIN iters : iters[i].cls = c =>
              LET g == iters[i]
              IN  /\ Len(g.out) = g.pos
                  /\ g.pos <= Len(canon)
                  /\ \A k \in 1..Len(g.out) : IsSymbolOf(g.out[k], canon[k], c)
                  /\ \A k, m \in 1..Len(g.out) : k # m => g.out[k] # g.out[m]
                  /\ g.done => Len(g.out) = Len(canon)

\* one generator over ButtonStyle ran to the end while a second, newer one has
\* yielded only the first member
C4_Witness ==
    /\ Len(iters) = 2
    /\ iters[1].cls = "ButtonStyle" /\ iters[1].done /\ Len(iters[1].out) = 5
    /\ iters[2].cls = "ButtonStyle" /\ iters[2].pos = 1
    /\ heap[iters[2].out[1].n].name = "blurple"

(* C5: setting or deleting an attribute of a symbol-set type raises TypeError
   and leaves the class (name map, value map, member list) and its Symbols as
   they were; no step of any operation changes an existing class. *)
C5_Immutable ==
    [][ /\ \A c \in DOMAIN classes : c \in DOMAIN classes' /\ classes'[c] = classes[c]
        /\ \A o \in DOMAIN heap : o \in DOMAIN heap' /\ heap'[o] = heap[o]
        /\ last'.op \in {"setattr", "delattr"} => last'.res = Raise("TypeError") ]_vars

\* ButtonStyle.grey = 7 raised TypeError
C5_Witness ==
    /\ last.op = "setattr" /\ last.cls = "ButtonStyle" /\ last.key = "grey"
    /\ last.res = Raise("TypeError")

(* C6: isinstance(x, T) is true exactly when x is a Symbol obtained from T; a
   Symbol of A is an instance of A and of no other symbol set, and a raw value
   is an instance of none (no error). *)
C6_InstanceCheck ==
    /\ last.op = "isinstance" =>
          /\ last.res.tag = "return"
          /\ last.res.val = PyBool(/\ last.arg.kind = "sym"
                                   /\ \E v \in DOMAIN classes[last.cls]._enum_value_map_ :
                                         classes[last.cls]._enum_value_map_[v] = last.arg.n)
    /\ \A a, b \in DOMAIN classes : \A k \in DOMAIN classes[a]._enum_member_map_ :
          EnumMetaInstancecheck(heap, b, PySym(classes[a]._enum_member_map_[k])) = (a = b)

\* a ButtonStyle Symbol tested against T: false
C6_Witness ==
    /\ last.op = "isinstance" /\ last.cls = "T" /\ last.arg.kind = "sym"
    /\ heap[last.arg.n]._actual_enum_cls_ = "ButtonStyle"
    /\ last.res = Return(PyBool(FALSE))

-----------------------------------------------------------------------------
\* a generator run until it raises StopIteration
RECURSIVE Drain(_, _)
Drain(cs, g) ==
    IF g.done THEN g
    ELSE CHOOSE r \in { Drain(cs, g1) : g1 \in {GenNext(cs, g).gen} } : TRUE

\* list(cls): everything forward iteration yields, in order
Forward(c) == Drain(classes, EnumMetaIter(classes, c)).out

(* C11: for every declared (name, raw value), aliases included, cls[name] is a
   Symbol whose value is that raw value; cls.__members__ holds exactly the
   declared names; cls[name] for any other name raises KeyError. *)
C11_LookupByName ==
    /\ \A c \in DOMAIN classes :
          /\ \A i \in DeclaredAt(c) :
                LET a == classes[c].body[i]
                    r == EnumMetaGetitem(classes, c, a.key)
                    v == EnumMetaMembers(classes, c)
                IN  /\ r.tag = "return" /\ r.val.kind = "sym"
                    /\ heap[r.val.n].value = a.value
                    /\ heap[r.val.n]._actual_enum_cls_ = c
                    /\ v[a.key] = r.val
          /\ DOMAIN EnumMetaMembers(classes, c) =
                { classes[c].body[i].key : i \in DeclaredAt(c) }
    /\ last.op = "getitem" =>
          IF \E i \in DeclaredAt(last.cls) : classes[last.cls].body[i].key = last.key
          THEN /\ last.res.tag = "return"
               /\ \E i \in DeclaredAt(last.cls) :
                     /\ classes[last.cls].body[i].key = last.key
                     /\ heap[last.res.val.n].value = classes[last.cls].body[i].value
          ELSE last.res = Raise("KeyError")
    /\ last.op = "members" =>
          last.res = Return(PyBool(\E i \in DeclaredAt(last.cls) :
                                      classes[last.cls].body[i].key = last.key))

\* ButtonStyle['Secondary'] returned the Symbol of raw value 2
C11_Witness ==
    /\ last.op = "getitem" /\ last.cls = "ButtonStyle" /\ last.key = "Secondary"
    /\ last.res.tag = "return" /\ heap[last.res.val.n].value = PyInt(2)

(* C12: a generator from __reversed__ yields the sequence of forward iteration
   in reverse order: the same Symbols, as many, none twice, for every symbol
   set, those with aliases included. *)
C12_Reversed ==
    \A c \in DOMAIN classes : \A fwd \in {Forward(c)} :
        \A i \in DOMAIN iters : iters[i].cls = c =>
            LET g == iters[i]
                n == Len(fwd)
            IN  /\ Len(g.out) = g.pos
                /\ g.pos <= n
                /\ \A k \in 1..Len(g.out) : g.out[k] = fwd[n + 1 - k]
                /\ \A k, m \in 1..Len(g.out) : k # m => g.out[k] # g.out[m]
                /\ g.done => Len(g.out) = n

\* reversed(ButtonStyle) ran to the end: five Symbols, url first and blurple last
C12_Witness ==
    \E i \in DOMAIN iters :
        /\ iters[i].cls = "ButtonStyle" /\ iters[i].done /\ Len(iters[i].out) = 5
        /\ heap[iters[i].out[1].n].name = "url"
        /\ heap[iters[i].out[5].n].name = "blurple"

(* The target buckets of audit log actions, by raw value *)
BucketNames == <<"guild", "channel", "user", "role", "invite", "webhook", "emoji",
                 "message", "integration">>

\* x is one of the Symbols AuditLogActionCategory declares
IsCategory(x) ==
    /\ x.kind = "sym"
    /\ heap[x.n]._actual_enum_cls_ = "AuditLogActionCategory"
    /\ heap[x.n].name \in {"create", "update", "delete"}

\* x is a Symbol declared by AuditLogAction
IsAuditLogAction(x) ==
    /\ x.kind = "sym"
    /\ heap[x.n]._actual_enum_cls_ = "AuditLogAction"

\* the claimed outcome of .category and of .target_type on the member x
CategoryOk(x, res) == res.tag = "return" /\ (res.val = PyNone \/ IsCategory(res.val))

TargetTypeOk(x, res) ==
    LET v == heap[x.n].value.n
    IN  /\ v >= 0 /\ v < 90
        /\ res = Return(Text(BucketNames[(v \div 10) + 1]))

(* C13: for every declared AuditLogAction member, category returns without
   error an AuditLogActionCategory Symbol (create, update, delete) or None, and
   target_type returns the bucket of the raw value (below 10 guild, 10-19
   channel, 20-29 user, 30-39 role, 40-49 invite, 50-59 webhook, 60-69 emoji,
   70-79 message, 80-89 integration), never None. *)
C13_AuditLogAction ==
    /\ \A i \in DeclaredAt("AuditLogAction") :
          LET x == EnumMetaGetitem(classes, "AuditLogAction",
                                   classes["AuditLogAction"].body[i].key).val
          IN  /\ IsAuditLogAction(x)
              /\ CategoryOk(x, category(classes, heap, x))
              /\ TargetTypeOk(x, target_type(classes, heap, x))
    /\ (last.op = "category" /\ IsAuditLogAction(last.arg)) => CategoryOk(last.arg, last.res)
    /\ (last.op = "target_type" /\ IsAuditLogAction(last.arg)) =>
          TargetTypeOk(last.arg, last.res)

\* AuditLogAction.message_pin.category gave None; its target_type is 'message'
C13_Witness ==
    /\ last.op = "category" /\ IsAuditLogAction(last.arg)
    /\ heap[last.arg.n].name = "message_pin"
    /\ last.res = Return(PyNone)
    /\ target_type(classes, heap, last.arg) = Return(Text("message"))

-----------------------------------------------------------------------------
(* Statuses of an event, for stating the edit claims *)

StatusMember(x) == x.kind = "sym" /\ heap[x.n]._actual_enum_cls_ = "EventStatus"

IsStatus(x, name) == StatusMember(x) /\ heap[x.n].name = name

Terminal(x) == IsStatus(x, "completed") \/ IsStatus(x, "canceled")

\* the call got as far as the status check: it raised there or not at all
ReachedStatus(e) == e.stage \in {"status", ""}

(* C7: on a scheduled event, edit with a status accepts active and canceled and
   rejects scheduled and completed with ValueError. *)
C7_FromScheduled ==
    (/\ elast.op = "edit" /\ IsStatus(elast.before, "scheduled")
     /\ StatusMember(elast.status) /\ ReachedStatus(elast)) =>
        IF IsStatus(elast.status, "active") \/ IsStatus(elast.status, "canceled")
        THEN elast.exc = "" /\ elast.sent
        ELSE elast.exc = "ValueError" /\ ~elast.sent

(* C8 as claimed: on a completed or canceled event every edit call that carries
   a status field raises ValueError and sends no request, so the status of a
   completed or canceled event is never changed by edit. *)
C8_AlwaysValueError ==
    [][ /\ (elast'.op = "edit" /\ Terminal(event.status) /\ elast'.status # Absent) =>
              elast'.exc = "ValueError" /\ ~elast'.sent
        /\ (elast'.op \in {"edit", "return"} /\ Terminal(event.status)) =>
              event'.status = event.status ]_vars

(* C8 amended: on a completed or canceled event every edit call that carries a
   status field raises, sends no request and leaves the event as it is, so over
   any sequence of such calls the status is never changed by them; the error is
   that of the first check of edit that fails, and when every check before the
   status check passes it is ValueError for a status that is an EventStatus
   member and TypeError for one that is not. *)
C8_Terminal ==
    [][ (elast'.op = "edit" /\ Terminal(event.status) /\ elast'.status # Absent) =>
          /\ elast'.exc # "" /\ ~elast'.sent
          /\ pending' = pending /\ remote' = remote /\ event' = event
          /\ ReachedStatus(elast') =>
                elast'.exc = IF StatusMember(elast'.status) THEN "ValueError"
                             ELSE "TypeError" ]_vars

\* edit(status=active) on a canceled event reached the status check, raised
\* ValueError and left the event canceled
C8_Witness ==
    /\ elast.op = "edit" /\ IsStatus(elast.before, "canceled")
    /\ IsStatus(elast.status, "active")
    /\ elast.stage = "status" /\ elast.exc = "ValueError" /\ ~elast.sent
    /\ IsStatus(event.status, "canceled")

(* C9 as claimed: on an active event, edit with a status accepts the status only
   when it is completed and rejects scheduled, active and canceled with
   ValueError. *)
C9_AnyCall ==
    (/\ elast.op = "edit" /\ IsStatus(elast.before, "active")
     /\ StatusMember(elast.status)) =>
        /\ elast.sent => IsStatus(elast.status, "completed")
        /\ ~IsStatus(elast.status, "completed") =>
              elast.exc = "ValueError" /\ ~elast.sent

(* C9 amended: on an active event, an edit call with a status whose checks
   before the status check all pass accepts the status only when it is
   completed and rejects scheduled, active and canceled with ValueError. *)
C9_FromActive ==
    (/\ elast.op = "edit" /\ IsStatus(elast.before, "active")
     /\ StatusMember(elast.status) /\ ReachedStatus(elast)) =>
        IF IsStatus(elast.status, "completed")
        THEN elast.exc = "" /\ elast.sent
        ELSE elast.exc = "ValueError" /\ ~elast.sent

\* edit(status=completed) on an active event was sent: the request with status 3
\* is awaiting its response
C9_Witness ==
    /\ elast.op = "edit" /\ IsStatus(elast.before, "active")
    /\ IsStatus(elast.status, "completed") /\ elast.sent
    /\ \E data \in BagToSet(pending) : data.status = PyInt(3)

(* C10: edit raises ValueError, and sends no request, whenever the name or the
   location it is given is not 1..100 characters long or the description is not
   1..1000 characters long. *)
C10_LengthsChecked ==
    (elast.op = "edit" /\ elast.badlen # {}) =>
        elast.exc = "ValueError" /\ ~elast.sent

=============================================================================
